---- MODULE Spec2Model ----
(***************************************************************************)
(* Free-list heap allocator (allocator.h / allocator.cpp).                 *)
(*                                                                         *)
(* The heap is modelled at the granularity the code reads and writes it:   *)
(* an array of 8-byte words.  A BlockHeader at address b occupies three    *)
(* words (LP64 layout): size at b, is_free at b+8 (one byte, seven bytes   *)
(* of padding), next at b+16.  Headers are not objects of the model: they  *)
(* are whatever the words at an address hold, so a header absorbed by      *)
(* coalescing stays in memory as stale data exactly as in the program.     *)
(*                                                                         *)
(* Addresses are absolute; nullptr is 0.  size_t and pointer arithmetic    *)
(* wrap modulo SizeMod (the program's 2^64 scaled down to 2^SizeBits).     *)
(* The heap capacity is scaled down from 1 MiB to HeapWords words.         *)
(***************************************************************************)
EXTENDS Integers, Sequences, FiniteSets, Bags, TLC

\* ---------------------------------------------------------------- bounds
\* heap capacity in 8-byte words, width of size_t in bits, and the number of
\* calls a run is followed for after a request whose arithmetic wrapped
HeapWords == 16
SizeBits == 10
MaxAfterWrap == 1

\* ------------------------------------------------------------- constants
ALIGN_SIZE == 8
HEAP_SIZE == 8 * HeapWords
sizeofBlockHeader == 24
SizeMod == 2 ^ SizeBits
heap_buffer == 64
nullptr == 0

\* size_t / pointer arithmetic is unsigned and wraps
T(x) == x % SizeMod

heap_end == heap_buffer + HEAP_SIZE

\* number of loop iterations after which a walk over the heap words must
\* have revisited an address (and so never ends)
Fuel == HeapWords + 1

\* ------------------------------------------------------------ raw memory
\* an 8-byte word of heap_buffer can be accessed at address a
InBuf(a) == /\ a >= heap_buffer
            /\ a + 8 <= heap_end
            /\ (a - heap_buffer) % 8 = 0

WordOf(a) == (a - heap_buffer) \div 8

\* The allocator state threaded through the code: the heap words, the
\* free_list global and how the running call ended up ("no": still running
\* normally, "loop": in a loop that never ends, "ub": accessed memory
\* outside heap_buffer).
St(m, fl) == [mem |-> m, free_list |-> fl, halt |-> "no"]

Halt(st, why) == IF st.halt = "no" THEN [st EXCEPT !.halt = why] ELSE st

Rd(st, a) == IF InBuf(a) THEN st.mem[WordOf(a)] ELSE 0

\* the access check that goes with a read of the word at a
Acc(st, a) == IF InBuf(a) THEN st ELSE Halt(st, "ub")

Wr(st, a, v) ==
    IF st.halt # "no" THEN st
    ELSE IF InBuf(a) THEN [st EXCEPT !.mem[WordOf(a)] = v]
    ELSE Halt(st, "ub")

\* BlockHeader fields
SizeAt(b) == b
FlagAt(b) == T(b + 8)
NextAt(b) == T(b + 16)

\* is_free is one byte: a store replaces the low byte of its word
WrFlag(st, b, v) ==
    LET w == Rd(st, FlagAt(b))
    IN Wr(st, FlagAt(b), (w - (w % 256)) + (IF v THEN 1 ELSE 0))

\* a load of is_free from a byte that holds neither 0 nor 1 has no defined
\* value: ub is the value the build happens to produce
is_free(st, b, ub) ==
    LET byte == Rd(st, FlagAt(b)) % 256
    IN IF byte = 0 THEN FALSE ELSE IF byte = 1 THEN TRUE ELSE ub

\* get_data stepping one byte, not one BlockHeader, past the header start
get_data_ByteStep(b) == T(b + 1)

\* BlockHeader::get_data / BlockHeader::get_header
get_data(b) == T(b + sizeofBlockHeader)
get_header(ptr) == T(ptr + SizeMod - sizeofBlockHeader)

\* ------------------------------------------------------------- functions
\* rounds an aligned size up to the next multiple as well
align_size_RoundsPastMultiple(size) ==
    LET s == T(size + ALIGN_SIZE)
    IN s - (s % ALIGN_SIZE)

align_size(size) ==
    LET s == T(size + ALIGN_SIZE - 1)
    IN s - (s % ALIGN_SIZE)

\* accepts the address one past the end of the heap
is_valid_ptr_InclusiveEnd(ptr) ==
    ptr >= heap_buffer /\ ptr <= heap_buffer + HEAP_SIZE

is_valid_ptr(ptr) == ptr >= heap_buffer /\ ptr < heap_buffer + HEAP_SIZE

get_min_block_size == align_size(sizeofBlockHeader + 1)

\* init_allocator without initial_block->is_free = true
InitMem_FlagNotSet ==
    [i \in 0 .. (HeapWords - 1) |-> IF i = 0 THEN HEAP_SIZE ELSE 0]

InitMem ==
    [i \in 0 .. (HeapWords - 1) |->
        IF i = 0 THEN HEAP_SIZE ELSE IF i = 1 THEN 1 ELSE 0]

\* to->next = from->next
CopyNext(st, to, from) ==
    Wr(Acc(st, NextAt(from)), NextAt(to), Rd(st, NextAt(from)))

\* free_list = block->next
PopHead(st, block) ==
    [Acc(st, NextAt(block)) EXCEPT !.free_list = Rd(st, NextAt(block))]

\* the stores of split_block that carve new_block out of block, in the
\* order of the code: new_block->size, new_block->is_free, block->size,
\* new_block->next, block->next
SplitAt(st, block, new_block, total_size) ==
    Wr(CopyNext(Wr(WrFlag(Wr(st, SizeAt(new_block),
                             T(Rd(st, SizeAt(block)) + SizeMod - total_size)),
                          new_block, TRUE),
                   SizeAt(block), total_size),
                new_block, block),
       NextAt(block), new_block)

\* split_block from its size check on
SplitIfRoom(st, block, total_size, min_remaining) ==
    IF Rd(st, SizeAt(block)) < T(total_size + min_remaining)
    THEN st
    ELSE SplitAt(st, block, T(block + total_size), total_size)

\* keeps a block whole unless the remainder could hold two minimum blocks
split_block_LargeThreshold(st, block, requested_size) ==
    SplitIfRoom(st, block, T(sizeofBlockHeader + align_size(requested_size)),
                2 * get_min_block_size)

split_block(st, block, requested_size) ==
    SplitIfRoom(st, block, T(sizeofBlockHeader + align_size(requested_size)),
                get_min_block_size)

\* the while loop of remove_from_free_list: the entry whose next is block,
\* or nullptr
RECURSIVE FindPred(_, _, _, _)
FindPred(st, block, current, fuel) ==
    IF current = nullptr THEN [current |-> nullptr, halt |-> "no"]
    ELSE IF ~InBuf(NextAt(current)) THEN [current |-> nullptr, halt |-> "ub"]
    ELSE IF Rd(st, NextAt(current)) = block
         THEN [current |-> current, halt |-> "no"]
    ELSE IF fuel = 0 THEN [current |-> nullptr, halt |-> "loop"]
    ELSE FindPred(st, block, Rd(st, NextAt(current)), fuel - 1)

\* remove_from_free_list after its loop: current->next = block->next
Unlink(st, block, p) ==
    IF p.halt # "no" THEN Halt(st, p.halt)
    ELSE IF p.current # nullptr THEN CopyNext(st, p.current, block)
    ELSE st

remove_from_free_list(st, block) ==
    IF st.free_list = nullptr THEN st
    ELSE IF st.free_list = block THEN PopHead(st, block)
    ELSE Unlink(st, block, FindPred(st, block, st.free_list, Fuel))

\* the while loop of coalesce_block that looks for the block ending at
\* block_start: prev_block, or nullptr
RECURSIVE FindPrev(_, _, _, _, _)
FindPrev(st, block_start, prev_block_end, ub, fuel) ==
    IF ~(prev_block_end < block_start)
    THEN [prev_block |-> nullptr, halt |-> "no"]
    ELSE IF ~InBuf(SizeAt(prev_block_end))
         THEN [prev_block |-> nullptr, halt |-> "ub"]
    ELSE IF fuel = 0 THEN [prev_block |-> nullptr, halt |-> "loop"]
    ELSE LET current == prev_block_end
             current_end == T(prev_block_end + Rd(st, SizeAt(current)))
         IN IF current_end = block_start /\ ~InBuf(FlagAt(current))
            THEN [prev_block |-> nullptr, halt |-> "ub"]
            ELSE IF current_end = block_start /\ is_free(st, current, ub)
                 THEN [prev_block |-> current, halt |-> "no"]
            ELSE IF current_end >= block_start
                 THEN [prev_block |-> nullptr, halt |-> "no"]
            ELSE FindPrev(st, block_start, current_end, ub, fuel - 1)

\* block->size += next_block->size
AbsorbNext(st, block, next_block) ==
    Wr(Acc(st, SizeAt(next_block)), SizeAt(block),
       T(Rd(st, SizeAt(block)) + Rd(st, SizeAt(next_block))))

\* the forward merge of coalesce_block once next_block->is_free is read
MergeNext(st, block, next_block, ub) ==
    IF st.halt = "no" /\ is_free(st, next_block, ub)
    THEN AbsorbNext(remove_from_free_list(st, next_block), block, next_block)
    ELSE st

\* coalesce_block up to its backward scan
CoalesceForward(st, block, block_end, ub) ==
    IF block_end < heap_end
    THEN MergeNext(Acc(Acc(st, SizeAt(block)), FlagAt(block_end)),
                   block, block_end, ub)
    ELSE Acc(st, SizeAt(block))

\* coalesce_block after its backward scan: prev_block->size += block->size
MergePrev(st, block, p) ==
    IF st.halt # "no" THEN [st |-> st, ret |-> nullptr]
    ELSE IF p.halt # "no" THEN [st |-> Halt(st, p.halt), ret |-> nullptr]
    ELSE IF p.prev_block # nullptr
         THEN [st |-> Wr(st, SizeAt(p.prev_block),
                         T(Rd(st, SizeAt(p.prev_block))
                           + Rd(st, SizeAt(block)))),
               ret |-> nullptr]
    ELSE [st |-> st, ret |-> block]

\* coalesce_block from its backward scan on
CoalesceBackward(st, block, ub) ==
    MergePrev(st, block, FindPrev(st, block, heap_buffer, ub, Fuel))

coalesce_block(st, block, ub) ==
    CoalesceBackward(
        CoalesceForward(st, block, T(block + Rd(st, SizeAt(block))), ub),
        block, ub)

\* the search loop of my_malloc: the first entry with size >= total_size
\* and the entry before it
RECURSIVE FindFit(_, _, _, _, _)
FindFit(st, total_size, current, prev, fuel) ==
    IF current = nullptr
    THEN [found |-> FALSE, current |-> nullptr, prev |-> prev, halt |-> "no"]
    ELSE IF ~InBuf(SizeAt(current))
         THEN [found |-> FALSE, current |-> current, prev |-> prev,
               halt |-> "ub"]
    ELSE IF Rd(st, SizeAt(current)) >= total_size
         THEN [found |-> TRUE, current |-> current, prev |-> prev,
               halt |-> "no"]
    ELSE IF ~InBuf(NextAt(current))
         THEN [found |-> FALSE, current |-> current, prev |-> prev,
               halt |-> "ub"]
    ELSE IF fuel = 0
         THEN [found |-> FALSE, current |-> current, prev |-> prev,
               halt |-> "loop"]
    ELSE FindFit(st, total_size, Rd(st, NextAt(current)), current, fuel - 1)

\* the unlinking of block_to_use in my_malloc
TakeFromList(st, block_to_use, prev) ==
    IF block_to_use = st.free_list THEN PopHead(st, block_to_use)
    ELSE IF prev # nullptr THEN CopyNext(st, prev, block_to_use)
    ELSE st

\* block_to_use->is_free = false; block_to_use->next = nullptr
MarkAllocated(st, block_to_use) ==
    Wr(WrFlag(Acc(st, FlagAt(block_to_use)), block_to_use, FALSE),
       NextAt(block_to_use), nullptr)

\* my_malloc from the outcome f of its search on
UseBlock(st, size, f) ==
    IF f.halt # "no" THEN [st |-> Halt(st, f.halt), ret |-> nullptr]
    ELSE IF ~f.found THEN [st |-> st, ret |-> nullptr]
    ELSE [st |-> MarkAllocated(
                     TakeFromList(split_block(st, f.current, size),
                                  f.current, f.prev),
                     f.current),
          ret |-> get_data(f.current)]

\* my_malloc without the size == 0 check
my_malloc_NoZeroCheck(st, size) ==
    UseBlock(st, size,
             FindFit(st, T(sizeofBlockHeader + align_size(size)),
                     st.free_list, nullptr, Fuel))

my_malloc(st, size) ==
    IF size = 0 THEN [st |-> st, ret |-> nullptr]
    ELSE UseBlock(st, size,
                  FindFit(st, T(sizeofBlockHeader + align_size(size)),
                          st.free_list, nullptr, Fuel))

\* block->is_free = true; block->next = nullptr
MarkFree(st, block) == Wr(WrFlag(st, block, TRUE), NextAt(block), nullptr)

\* links the block behind the current head instead of in front of it
InsertAtHead_BehindHead(c) ==
    IF c.ret # nullptr /\ c.st.free_list # nullptr
    THEN [st |-> Wr(CopyNext(c.st, c.ret, c.st.free_list),
                    NextAt(c.st.free_list), c.ret),
          err |-> "none"]
    ELSE IF c.ret # nullptr
    THEN [st |-> [Wr(c.st, NextAt(c.ret), nullptr)
                  EXCEPT !.free_list = c.ret],
          err |-> "none"]
    ELSE [st |-> c.st, err |-> "none"]

\* the head insertion of my_free for what coalesce_block returned
InsertAtHead(c) ==
    IF c.ret # nullptr
    THEN [st |-> [Wr(c.st, NextAt(c.ret), c.st.free_list)
                  EXCEPT !.free_list = c.ret],
          err |-> "none"]
    ELSE [st |-> c.st, err |-> "none"]

\* my_free from "Mark as free" on
Release(st, block, ub) ==
    InsertAtHead(coalesce_block(MarkFree(st, block), block, ub))

\* my_free without the nullptr check
my_free_NoNullCheck(st, ptr, ub) ==
    IF ~is_valid_ptr(get_header(ptr)) THEN [st |-> st, err |-> "invalid"]
    ELSE IF ~InBuf(FlagAt(get_header(ptr)))
         THEN [st |-> Halt(st, "ub"), err |-> "none"]
    ELSE IF is_free(st, get_header(ptr), ub)
         THEN [st |-> st, err |-> "double"]
    ELSE Release(st, get_header(ptr), ub)

\* my_free without the double-free check
my_free_NoDoubleFreeCheck(st, ptr, ub) ==
    IF ptr = nullptr THEN [st |-> st, err |-> "none"]
    ELSE IF ~is_valid_ptr(get_header(ptr)) THEN [st |-> st, err |-> "invalid"]
    ELSE IF ~InBuf(FlagAt(get_header(ptr)))
         THEN [st |-> Halt(st, "ub"), err |-> "none"]
    ELSE Release(st, get_header(ptr), ub)

my_free(st, ptr, ub) ==
    IF ptr = nullptr THEN [st |-> st, err |-> "none"]
    ELSE IF ~is_valid_ptr(get_header(ptr)) THEN [st |-> st, err |-> "invalid"]
    ELSE IF ~InBuf(FlagAt(get_header(ptr)))
         THEN [st |-> Halt(st, "ub"), err |-> "none"]
    ELSE IF is_free(st, get_header(ptr), ub)
         THEN [st |-> st, err |-> "double"]
    ELSE Release(st, get_header(ptr), ub)

\* --------------------------------------------------------- diagnostics
\* the address-ordered walk shared by get_used_memory and
\* print_heap_state: the block starts met from heap_buffer on
RECURSIVE HeapWalk(_, _, _, _)
HeapWalk(st, current, acc, fuel) ==
    IF ~(current < heap_end)
    THEN [blocks |-> acc, end |-> current, halt |-> "no"]
    ELSE IF ~InBuf(SizeAt(current)) \/ ~InBuf(FlagAt(current))
         THEN [blocks |-> acc, end |-> current, halt |-> "ub"]
    ELSE IF fuel = 0 THEN [blocks |-> acc, end |-> current, halt |-> "loop"]
    ELSE HeapWalk(st, T(current + Rd(st, SizeAt(current))),
                  Append(acc, current), fuel - 1)

\* the link-ordered walk shared by get_free_memory and
\* get_fragmentation_count: the entries met from free_list on
RECURSIVE ListWalk(_, _, _, _)
ListWalk(st, current, acc, fuel) ==
    IF current = nullptr THEN [blocks |-> acc, halt |-> "no"]
    ELSE IF ~InBuf(SizeAt(current)) \/ ~InBuf(NextAt(current))
         THEN [blocks |-> acc, halt |-> "ub"]
    ELSE IF fuel = 0 THEN [blocks |-> acc, halt |-> "loop"]
    ELSE ListWalk(st, Rd(st, NextAt(current)), Append(acc, current),
                  fuel - 1)

RECURSIVE SumSeq(_)
SumSeq(s) == IF s = <<>> THEN 0 ELSE T(Head(s) + SumSeq(Tail(s)))

\* payload bytes of the block at b as the code computes them
UserSize(st, b) == T(Rd(st, SizeAt(b)) + SizeMod - sizeofBlockHeader)

\* A diagnostic that does not return has no value: NoValue stands for it.
NoValue == -1

\* the is_free byte of the header at b holds a bool
FlagDefined(st, b) == (Rd(st, FlagAt(b)) % 256) \in {0, 1}

get_used_memory(st) ==
    LET w == HeapWalk(st, heap_buffer, <<>>, Fuel)
    IN IF w.halt # "no" THEN NoValue
       ELSE IF \E i \in 1 .. Len(w.blocks) : ~FlagDefined(st, w.blocks[i])
            THEN NoValue
       ELSE SumSeq([i \in 1 .. Len(w.blocks) |->
                      IF is_free(st, w.blocks[i], FALSE) THEN 0
                      ELSE UserSize(st, w.blocks[i])])

get_free_memory(st) ==
    LET w == ListWalk(st, st.free_list, <<>>, Fuel)
    IN IF w.halt # "no" THEN NoValue
       ELSE SumSeq([i \in 1 .. Len(w.blocks) |-> UserSize(st, w.blocks[i])])

get_fragmentation_count(st) ==
    LET w == ListWalk(st, st.free_list, <<>>, Fuel)
    IN IF w.halt # "no" THEN NoValue ELSE Len(w.blocks)

\* what a diagnostic leaves behind: the state it was called in, with the
\* call marked as not returning when its walk does not end
Walked(st, halt) == IF halt # "no" THEN Halt(st, halt) ELSE st

\* get_used_memory, get_free_memory and get_fragmentation_count as calls:
\* the state they leave behind and the value they return
call_get_used_memory(st) ==
    [st |-> Walked(st, HeapWalk(st, heap_buffer, <<>>, Fuel).halt),
     ret |-> get_used_memory(st)]

\* a get_free_memory that advances free_list itself instead of a cursor
call_get_free_memory_AdvancesHead(st) ==
    [st |-> Walked([st EXCEPT !.free_list = nullptr],
                   ListWalk(st, st.free_list, <<>>, Fuel).halt),
     ret |-> get_free_memory(st)]

call_get_free_memory(st) ==
    [st |-> Walked(st, ListWalk(st, st.free_list, <<>>, Fuel).halt),
     ret |-> get_free_memory(st)]

call_get_fragmentation_count(st) ==
    [st |-> Walked(st, ListWalk(st, st.free_list, <<>>, Fuel).halt),
     ret |-> get_fragmentation_count(st)]

\* the step bound of the block layout loop of print_heap_state
MaxPrintSteps == 10000

\* The block layout loop of print_heap_state: "end" when it reaches the
\* end of the heap, "guard" when it breaks with the corruption message,
\* "ub" when it reads outside heap_buffer.  A walk that takes more steps
\* than the heap has words is in a cycle and runs into the step bound.
RECURSIVE PrintWalk(_, _, _, _)
PrintWalk(st, current, block_num, fuel) ==
    IF ~(current < heap_end) THEN "end"
    ELSE IF ~InBuf(SizeAt(current)) \/ ~InBuf(FlagAt(current)) THEN "ub"
    ELSE IF Rd(st, SizeAt(current)) = 0 \/ block_num + 1 > MaxPrintSteps
         THEN "guard"
    ELSE IF fuel = 0 THEN "guard"
    ELSE PrintWalk(st, T(current + Rd(st, SizeAt(current))), block_num + 1,
                   fuel - 1)

\* the first of the walks of print_heap_state that does not end
FirstHalt(used, free, layout) ==
    IF used # "no" THEN used
    ELSE IF free # "no" THEN free
    ELSE IF layout = "ub" THEN "ub"
    ELSE "no"

\* print_heap_state: the summary lines call get_used_memory,
\* get_free_memory and get_fragmentation_count, then come the block layout
\* loop and the free list loop; err is what goes to the error stream
call_print_heap_state(st) ==
    [st |-> Walked(st, FirstHalt(
                           HeapWalk(st, heap_buffer, <<>>, Fuel).halt,
                           ListWalk(st, st.free_list, <<>>, Fuel).halt,
                           PrintWalk(st, heap_buffer, 0, Fuel))),
     err |-> IF PrintWalk(st, heap_buffer, 0, Fuel) = "guard"
             THEN "corrupt" ELSE "none"]

\* ------------------------------------------------------------ the program
VARIABLES mem, free_list, halted, live, last, wraps

vars == <<mem, free_list, halted, live, last, wraps>>

\* mem, free_list: heap_buffer and the free_list global.
\* halted: "no" between calls; "loop" or "ub" once a call did not return.
\* live:   the caller's bag of pointers my_malloc returned and my_free has
\*         not yet taken back.
\* last:   what the caller holds from the last call: the pointer my_malloc
\*         returned or my_free was given, and what was written to the
\*         error stream.
\* wraps:  0 until a request wrapped, then the number of calls since.

Cur == St(mem, free_list)

Call(op, ptr, err) == [op |-> op, ptr |-> ptr, err |-> err]

\* request sizes: none, both ends of the first alignment class, the start
\* of the second, the largest that fits the heap and the smallest that
\* does not
Requests ==
    {0, 1, 8, 9, HEAP_SIZE - sizeofBlockHeader,
     HEAP_SIZE - sizeofBlockHeader + 1}

\* size + ALIGN_SIZE - 1 or sizeof(BlockHeader) + aligned_size exceeds
\* SIZE_MAX
Wrapping(size) == size > SizeMod - 32

\* requests near SIZE_MAX: the largest whose arithmetic does not wrap, one
\* for each value total_size wraps to (0, 8, 16, 24), and SIZE_MAX
WrapRequests ==
    {SizeMod - 32, SizeMod - 24, SizeMod - 16, SizeMod - 8, SizeMod - 7,
     SizeMod - 1}

\* pointers whose header address lies outside heap_buffer: just below it,
\* just past it, and low enough for the subtraction to wrap
OutsidePtrs == {heap_buffer + 16, heap_end + sizeofBlockHeader, 8}

Init ==
    /\ mem = InitMem
    /\ free_list = heap_buffer
    /\ halted = "no"
    /\ live = EmptyBag
    /\ last = Call("init", nullptr, "none")
    /\ wraps = 0

InitAllocator ==
    /\ halted = "no"
    /\ mem' = InitMem
    /\ free_list' = heap_buffer
    /\ halted' = "no"
    /\ live' = EmptyBag
    /\ last' = Call("init", nullptr, "none")
    /\ wraps' = 0

\* the call returned (or did not): r is what my_malloc left behind
MallocReturns(r) ==
    /\ mem' = r.st.mem
    /\ free_list' = r.st.free_list
    /\ halted' = r.st.halt
    /\ live' = IF r.st.halt = "no" /\ r.ret # nullptr
               THEN live (+) SetToBag({r.ret}) ELSE live
    /\ last' = Call("malloc", r.ret, "none")

Malloc(size) ==
    /\ halted = "no"
    /\ wraps <= MaxAfterWrap
    /\ wraps' = IF wraps > 0 \/ Wrapping(size) THEN wraps + 1 ELSE 0
    /\ MallocReturns(my_malloc(Cur, size))

\* the call returned (or did not): r is what my_free left behind
FreeReturns(ptr, r) ==
    /\ mem' = r.st.mem
    /\ free_list' = r.st.free_list
    /\ halted' = r.st.halt
    /\ live' = IF r.st.halt = "no" /\ r.err = "none" /\ BagIn(ptr, live)
               THEN live (-) SetToBag({ptr}) ELSE live
    /\ last' = Call("free", ptr, r.err)

Free(ptr) ==
    /\ halted = "no"
    /\ wraps <= MaxAfterWrap
    /\ wraps' = IF wraps > 0 THEN wraps + 1 ELSE 0
    /\ \E ub \in BOOLEAN : FreeReturns(ptr, my_free(Cur, ptr, ub))

\* my_malloc of a size the heap could hold or not, without wrapping
MallocAny == \E size \in Requests : Malloc(size)

\* my_malloc of a size near SIZE_MAX
MallocWrap == \E size \in WrapRequests : Malloc(size)

\* my_free of a pointer the caller holds
FreeLive == \E ptr \in BagToSet(live) : Free(ptr)

\* my_free(nullptr)
FreeNull == Free(nullptr)

\* my_free of the pointer that was passed to the previous my_free
FreeAgain == last.op = "free" /\ last.ptr # nullptr /\ Free(last.ptr)

\* my_free of a pointer that does not point into heap_buffer
FreeOutside == \E ptr \in OutsidePtrs : Free(ptr)

\* a diagnostic was called: st is the state it left behind
Diagnosed(op, st, err) ==
    /\ mem' = st.mem
    /\ free_list' = st.free_list
    /\ halted' = st.halt
    /\ last' = Call(op, nullptr, err)
    /\ UNCHANGED <<live, wraps>>

UsedMemory ==
    /\ halted = "no"
    /\ Diagnosed("used", call_get_used_memory(Cur).st, "none")

FreeMemory ==
    /\ halted = "no"
    /\ Diagnosed("free_bytes", call_get_free_memory(Cur).st, "none")

FragmentationCount ==
    /\ halted = "no"
    /\ Diagnosed("fragments", call_get_fragmentation_count(Cur).st, "none")

PrintHeapState ==
    /\ halted = "no"
    /\ Diagnosed("print", call_print_heap_state(Cur).st,
                 call_print_heap_state(Cur).err)

\* callers whose requests never wrap
Next ==
    \/ InitAllocator
    \/ MallocAny
    \/ FreeLive
    \/ FreeNull
    \/ FreeAgain
    \/ FreeOutside

Spec == Init /\ [][Next]_vars

\* callers that may also pass a size near SIZE_MAX
NextWrap ==
    \/ InitAllocator
    \/ MallocAny
    \/ MallocWrap
    \/ FreeLive
    \/ FreeNull
    \/ FreeAgain
    \/ FreeOutside

SpecWrap == Init /\ [][NextWrap]_vars

\* callers whose requests never wrap and who also call the diagnostics
NextDiag ==
    \/ InitAllocator
    \/ MallocAny
    \/ FreeLive
    \/ FreeNull
    \/ FreeAgain
    \/ FreeOutside
    \/ UsedMemory
    \/ FreeMemory
    \/ FragmentationCount
    \/ PrintHeapState

SpecDiag == Init /\ [][NextDiag]_vars

\* callers that may pass a size near SIZE_MAX and call the diagnostics
NextWrapDiag ==
    \/ InitAllocator
    \/ MallocAny
    \/ MallocWrap
    \/ FreeLive
    \/ FreeNull
    \/ FreeAgain
    \/ FreeOutside
    \/ UsedMemory
    \/ FreeMemory
    \/ FragmentationCount
    \/ PrintHeapState

SpecWrapDiag == Init /\ [][NextWrapDiag]_vars

\* ------------------------------------------------------------ properties
\* The address-ordered walk and the free-list walk of the current state.
Walk == HeapWalk(Cur, heap_buffer, <<>>, Fuel)
BlockSet == {Walk.blocks[i] : i \in 1 .. Len(Walk.blocks)}
List == ListWalk(Cur, free_list, <<>>, Fuel)
EntrySet == {List.blocks[i] : i \in 1 .. Len(List.blocks)}

\* align(n) and metadata_size + align(n) over the integers, without wrapping
AlignMath(n) == ((n + ALIGN_SIZE - 1) \div ALIGN_SIZE) * ALIGN_SIZE
TotalMath(n) == sizeofBlockHeader + AlignMath(n)

HeapAddrs == {heap_buffer + 8 * i : i \in 0 .. (HeapWords - 1)}
HeaderAddrs(b) == {b, b + 8, b + 16}

\* address a lies in the usable range of the live allocation p: the
\* UserSize bytes from p on
InRange(a, p) == T(a + SizeMod - p) < UserSize(Cur, get_header(p))

AllRequests == Requests \cup WrapRequests

TypeOK ==
    /\ mem \in [0 .. (HeapWords - 1) -> 0 .. (SizeMod - 1)]
    /\ free_list \in 0 .. (SizeMod - 1)
    /\ halted \in {"no", "loop", "ub"}
    /\ wraps \in 0 .. (MaxAfterWrap + 1)

\* C1: between calls, no pointer is live twice, the usable ranges of two
\* live allocations share no address, and no live allocation's usable
\* range covers a header word of a block of the partition.
C1_LiveDisjoint ==
    halted = "no" =>
        \A p \in BagToSet(live) :
            /\ CopiesIn(p, live) = 1
            /\ \A q \in BagToSet(live) \ {p} :
                   \A a \in HeapAddrs : ~(InRange(a, p) /\ InRange(a, q))
            /\ \A b \in BlockSet :
                   \A a \in HeaderAddrs(b) : ~InRange(a, p)

\* C2: between calls, the walk from the region start that advances by each
\* block's size ends, stays inside the region and lands exactly on the
\* region end.
C2_PartitionExact ==
    halted = "no" =>
        /\ Walk.halt = "no"
        /\ Walk.end = heap_end
        /\ \A i \in 1 .. Len(Walk.blocks) :
               Walk.blocks[i] + Rd(Cur, SizeAt(Walk.blocks[i]))
                   = (IF i = Len(Walk.blocks) THEN heap_end
                      ELSE Walk.blocks[i + 1])

\* C3: between calls, a block of the partition is on the free list exactly
\* when its is_free flag is set, and every free-list entry is a block of
\* the partition with the flag set.
C3_FreeListIffFree ==
    halted = "no" =>
        /\ Walk.halt = "no"
        /\ List.halt = "no"
        /\ \A b \in BlockSet :
               /\ FlagDefined(Cur, b)
               /\ (b \in EntrySet) <=> is_free(Cur, b, FALSE)
        /\ \A e \in EntrySet : e \in BlockSet

\* C4: between calls, when no pointer is live any more, there is one free
\* block, it starts at the region start and has size H, and the
\* diagnostics report 1 fragment, 0 used bytes and H - metadata_size free
\* bytes.
C4_FullCircle ==
    (halted = "no" /\ live = EmptyBag) =>
        /\ get_fragmentation_count(Cur) = 1
        /\ get_used_memory(Cur) = 0
        /\ get_free_memory(Cur) = HEAP_SIZE - sizeofBlockHeader
        /\ free_list = heap_buffer
        /\ Rd(Cur, SizeAt(heap_buffer)) = HEAP_SIZE
        /\ is_free(Cur, heap_buffer, FALSE)

C6_DoubleFreeContained ==
    (halted = "no" /\ last.op = "free" /\ last.err = "none"
       /\ last.ptr # nullptr) =>
        \A ub \in BOOLEAN :
            my_free(Cur, last.ptr, ub) = [st |-> Cur, err |-> "double"]

\* the second my_free(p) has been made and was reported
C6_Witness ==
    /\ halted = "no"
    /\ last.op = "free"
    /\ last.err = "double"
    /\ live # EmptyBag

\* the header address lies outside [region_start, region_start + H)
OutsideRegion(a) == a < heap_buffer \/ a >= heap_buffer + HEAP_SIZE

\* C7: in every state between calls, my_free(p) of a non-null p whose
\* header address lies outside the region reports an invalid pointer,
\* returns, and changes neither the heap nor the free list.
C7_InvalidPointerRejected ==
    halted = "no" =>
        \A p \in OutsidePtrs : \A ub \in BOOLEAN :
            (p # nullptr /\ OutsideRegion(get_header(p))) =>
                my_free(Cur, p, ub) = [st |-> Cur, err |-> "invalid"]

\* such a my_free has been made while allocations were live
C7_Witness ==
    /\ halted = "no"
    /\ last.op = "free"
    /\ last.err = "invalid"
    /\ OutsideRegion(get_header(last.ptr))
    /\ live # EmptyBag

\* C8: on a freshly initialized heap my_malloc(s) returns a pointer for
\* every s from 1 to H - metadata_size, and s = H - metadata_size takes
\* the whole region without a split.
C8_FreshAllocSucceeds ==
    (halted = "no" /\ last.op = "init") =>
        \A s \in 1 .. (HEAP_SIZE - sizeofBlockHeader) :
            LET r == my_malloc(Cur, s)
            IN /\ r.st.halt = "no"
               /\ r.ret # nullptr
               /\ s = HEAP_SIZE - sizeofBlockHeader =>
                      /\ Rd(r.st, SizeAt(heap_buffer)) = HEAP_SIZE
                      /\ r.st.free_list = nullptr

\* the whole region has been handed out in one piece
C8_Witness ==
    /\ halted = "no"
    /\ last.op = "malloc"
    /\ last.ptr = get_data(heap_buffer)
    /\ Rd(Cur, SizeAt(heap_buffer)) = HEAP_SIZE
    /\ free_list = nullptr
    /\ live = SetToBag({get_data(heap_buffer)})

\* C9: in every state between calls, my_malloc(size) returns null and
\* changes nothing when no free-list entry has a size of at least
\* metadata_size + align(size), the sum taken without wrapping.
C9_OomReturnsNull ==
    halted = "no" =>
        \A size \in AllRequests :
            (/\ List.halt = "no"
             /\ \A e \in EntrySet : Rd(Cur, SizeAt(e)) < TotalMath(size)) =>
                my_malloc(Cur, size) = [st |-> Cur, ret |-> nullptr]

\* C10: between calls, every block met by the walk from the region start
\* has a size that is a multiple of 8 and at least the minimum block size.
C10_BlockSizes ==
    halted = "no" =>
        \A b \in BlockSet :
            /\ Rd(Cur, SizeAt(b)) % ALIGN_SIZE = 0
            /\ Rd(Cur, SizeAt(b)) >= sizeofBlockHeader + ALIGN_SIZE

\* C11: between calls, the pointer the last my_malloc returned and every
\* pointer the caller still holds lie at a multiple of 8 bytes from
\* heap_buffer.
C11_PointersAligned ==
    halted = "no" =>
        /\ (last.op = "malloc" /\ last.ptr # nullptr) =>
               (last.ptr - heap_buffer) % ALIGN_SIZE = 0
        /\ \A p \in BagToSet(live) : (p - heap_buffer) % ALIGN_SIZE = 0

\* a my_malloc returned a pointer that is not the first block's, after
\* earlier allocations and a release
C11_Witness ==
    /\ halted = "no"
    /\ last.op = "malloc"
    /\ last.ptr # nullptr
    /\ last.ptr # get_data(heap_buffer)
    /\ BagCardinality(live) >= 2
    /\ free_list # nullptr

\* the block of the partition that ends where block b starts, or nullptr
PredOf(b) ==
    LET i == CHOOSE k \in 1 .. Len(Walk.blocks) : Walk.blocks[k] = b
    IN IF i = 1 THEN nullptr ELSE Walk.blocks[i - 1]

\* how often block e occurs among the first n entries of the sequence w
RECURSIVE Occurrences(_, _, _)
Occurrences(w, e, n) ==
    IF n = 0 THEN 0
    ELSE Occurrences(w, e, n - 1) + (IF w[n] = e THEN 1 ELSE 0)

C13_SplitConserves ==
    halted = "no" =>
        \A size \in AllRequests :
            LET r == my_malloc(Cur, size)
                b == get_header(r.ret)
                S == Rd(Cur, SizeAt(b))
                total == TotalMath(size)
                after == ListWalk(r.st, r.st.free_list, <<>>, Fuel)
            IN (/\ r.st.halt = "no"
                /\ r.ret # nullptr
                /\ Rd(r.st, SizeAt(b)) # S) =>
                   /\ Rd(r.st, SizeAt(b)) = total
                   /\ ~is_free(r.st, b, FALSE)
                   /\ InBuf(b + total)
                   /\ Rd(r.st, SizeAt(b + total)) = S - total
                   /\ is_free(r.st, b + total, FALSE)
                   /\ Occurrences(after.blocks, b + total,
                                  Len(after.blocks)) = 1

\* the last call was a my_free that released a block whose predecessor is
\* allocated or absent: the block is still a block of the partition
FreedInPlace ==
    /\ halted = "no"
    /\ last.op = "free"
    /\ last.err = "none"
    /\ last.ptr # nullptr
    /\ Walk.halt = "no"
    /\ get_header(last.ptr) \in BlockSet
    /\ is_free(Cur, get_header(last.ptr), FALSE)
    /\ \/ PredOf(get_header(last.ptr)) = nullptr
       \/ ~is_free(Cur, PredOf(get_header(last.ptr)), FALSE)

\* C14 as stated: right after such a my_free(p), my_malloc(s) returns p
\* for every s with metadata_size + align(s) at most the size of the
\* freed block.
C14_ReuseFreed ==
    FreedInPlace =>
        \A size \in AllRequests :
            TotalMath(size) <= Rd(Cur, SizeAt(get_header(last.ptr))) =>
                /\ my_malloc(Cur, size).st.halt = "no"
                /\ my_malloc(Cur, size).ret = last.ptr

\* C14 as amended: the same for every s of at least 1.
C14_ReuseFreedNonZero ==
    FreedInPlace =>
        \A size \in AllRequests \ {0} :
            TotalMath(size) <= Rd(Cur, SizeAt(get_header(last.ptr))) =>
                /\ my_malloc(Cur, size).st.halt = "no"
                /\ my_malloc(Cur, size).ret = last.ptr

\* a block was released in place while an older free block that could
\* serve a request as well is on the free list behind it
C14_Witness ==
    /\ FreedInPlace
    /\ free_list = get_header(last.ptr)
    /\ Rd(Cur, NextAt(free_list)) # nullptr
    /\ Rd(Cur, SizeAt(Rd(Cur, NextAt(free_list)))) >= TotalMath(1)
    /\ Rd(Cur, SizeAt(free_list)) >= TotalMath(1)
    /\ live # EmptyBag

\* C15: in every state between calls, a my_free(p) that releases an
\* allocated block changes get_fragmentation_count by +1 - k, where k
\* counts the free blocks among its predecessor and its successor.
C15_FragmentDelta ==
    halted = "no" =>
        \A p \in BagToSet(live) : \A ub \in BOOLEAN :
            LET b == get_header(p)
                nb == b + Rd(Cur, SizeAt(b))
                pb == PredOf(b)
                k == (IF nb < heap_end /\ is_free(Cur, nb, FALSE)
                      THEN 1 ELSE 0)
                     + (IF pb # nullptr /\ is_free(Cur, pb, FALSE)
                        THEN 1 ELSE 0)
                r == my_free(Cur, p, ub)
            IN (/\ Walk.halt = "no"
                /\ b \in BlockSet
                /\ r.st.halt = "no"
                /\ r.err = "none") =>
                   /\ get_fragmentation_count(Cur) # NoValue
                   /\ get_fragmentation_count(r.st) # NoValue
                   /\ get_fragmentation_count(r.st)
                          = get_fragmentation_count(Cur) + 1 - k

\* sizes of the three allocations carved from a released block: both ends
\* of the first two alignment classes
CarveSizes == {1, 8, 9, 16}

\* sizes of the allocation that is released first: both ends of every
\* alignment class whose total holds three minimum blocks and fits the
\* heap
FitSpanSizes ==
    {k \in (3 * get_min_block_size - sizeofBlockHeader)
              .. (HEAP_SIZE - sizeofBlockHeader) : k % ALIGN_SIZE <= 1}

\* the same and the sizes near SIZE_MAX
SpanSizes == FitSpanSizes \cup WrapRequests

\* the pointers p1, p2, p3 lie inside the block at b of size S, in
\* increasing order, at multiples of 8 from heap_buffer
CarvedFrom(b, S, p1, p2, p3) ==
    /\ p1 # nullptr /\ p2 # nullptr /\ p3 # nullptr
    /\ b < p1 /\ p1 < p2 /\ p2 < p3 /\ p3 < b + S
    /\ \A p \in {p1, p2, p3} : (p - heap_buffer) % ALIGN_SIZE = 0

\* the three allocations that follow my_malloc(n) and my_free of its
\* result, from the state st that my_free left, are carved from the block
\* at b
ThreeCarved(st, b, S, n) ==
    \A s1 \in CarveSizes : \A s2 \in CarveSizes : \A s3 \in CarveSizes :
        TotalMath(s1) + TotalMath(s2) + TotalMath(s3) <= TotalMath(n) =>
            LET a1 == my_malloc(st, s1)
                a2 == my_malloc(a1.st, s2)
                a3 == my_malloc(a2.st, s3)
            IN /\ a3.st.halt = "no"
               /\ CarvedFrom(b, S, a1.ret, a2.ret, a3.ret)

\* C16: from every state between calls, when my_malloc(n) returns a block
\* and that block is released at once, three allocations of at least one
\* byte whose totals together fit in metadata_size + align(n) return
\* pointers inside the former block, in increasing order, each 8-byte
\* aligned.
C16_CarvedFromReleased ==
    halted = "no" =>
        \A n \in SpanSizes :
            LET m == my_malloc(Cur, n)
                f == my_free(m.st, m.ret, FALSE)
            IN (m.st.halt = "no" /\ m.ret # nullptr) =>
                   /\ f.err = "none"
                   /\ f.st.halt = "no"
                   /\ ThreeCarved(f.st, get_header(m.ret),
                                  Rd(m.st, SizeAt(get_header(m.ret))), n)

\* C17: in every state between calls, my_malloc(0) returns nullptr and
\* changes neither the heap nor the free list.
C17_ZeroReturnsNull ==
    halted = "no" => my_malloc(Cur, 0) = [st |-> Cur, ret |-> nullptr]

\* a my_malloc returned nullptr while allocations were live and a free
\* block of at least the minimum size was on the free list
C17_Witness ==
    /\ halted = "no"
    /\ last.op = "malloc"
    /\ last.ptr = nullptr
    /\ live # EmptyBag
    /\ \E e \in EntrySet : Rd(Cur, SizeAt(e)) >= TotalMath(1)

\* C18: in every state between calls, my_free(nullptr) reports no error
\* and changes neither the heap nor the free list.
C18_FreeNullNoOp ==
    halted = "no" =>
        \A ub \in BOOLEAN :
            my_free(Cur, nullptr, ub) = [st |-> Cur, err |-> "none"]

\* a my_free(nullptr) was made while allocations were live
C18_Witness ==
    /\ halted = "no"
    /\ last.op = "free"
    /\ last.ptr = nullptr
    /\ last.err = "none"
    /\ live # EmptyBag
    /\ free_list # nullptr

\* the free accumulator of the address-ordered walk: size - metadata_size
\* summed over the blocks whose is_free is set, and their number
WalkFreeBytes ==
    SumSeq([i \in 1 .. Len(Walk.blocks) |->
              IF is_free(Cur, Walk.blocks[i], FALSE)
              THEN UserSize(Cur, Walk.blocks[i]) ELSE 0])

WalkFreeCount ==
    Cardinality({i \in 1 .. Len(Walk.blocks) :
                   is_free(Cur, Walk.blocks[i], FALSE)})

\* C19: between calls, the address-ordered walk ends, get_free_memory
\* equals the walk's free accumulator and get_fragmentation_count equals
\* the number of free blocks the walk meets.
C19_WalksAgree ==
    halted = "no" =>
        /\ Walk.halt = "no"
        /\ \A b \in BlockSet : FlagDefined(Cur, b)
        /\ get_free_memory(Cur) # NoValue
        /\ get_free_memory(Cur) = WalkFreeBytes
        /\ get_fragmentation_count(Cur) = WalkFreeCount

\* C20: whenever the last call was init_allocator, from whatever state it
\* was made, the heap is one block at heap_buffer of size HEAP_SIZE with
\* is_free set and next null, and the free list is that block alone.
C20_InitOneBlock ==
    (halted = "no" /\ last.op = "init") =>
        /\ Walk.halt = "no"
        /\ Walk.blocks = <<heap_buffer>>
        /\ Rd(Cur, SizeAt(heap_buffer)) = HEAP_SIZE
        /\ FlagDefined(Cur, heap_buffer)
        /\ is_free(Cur, heap_buffer, FALSE)
        /\ Rd(Cur, NextAt(heap_buffer)) = nullptr
        /\ List.halt = "no"
        /\ List.blocks = <<heap_buffer>>
        /\ live = EmptyBag

\* init_allocator has returned
C20_Witness ==
    /\ halted = "no"
    /\ last.op = "init"
    /\ free_list = heap_buffer
    /\ wraps = 0

\* C21: in every state between calls, a call of get_used_memory,
\* get_free_memory or get_fragmentation_count, whether it returns or not,
\* leaves every word of the heap (sizes, is_free flags, next links) and
\* free_list as they were.
C21_DiagnosticsReadOnly ==
    halted = "no" =>
        \A c \in {call_get_used_memory(Cur), call_get_free_memory(Cur),
                  call_get_fragmentation_count(Cur)} :
            /\ c.st.mem = mem
            /\ c.st.free_list = free_list

\* a diagnostic has returned while blocks were allocated and others free
C21_Witness ==
    /\ halted = "no"
    /\ last.op \in {"used", "free_bytes", "fragments"}
    /\ live # EmptyBag
    /\ free_list # nullptr

\* the last call was a my_free of a non-null pointer that released a block
Released ==
    /\ halted = "no"
    /\ last.op = "free"
    /\ last.err = "none"
    /\ last.ptr # nullptr

\* block b of the address-ordered walk contains the header address a
Contains(b, a) == b <= a /\ a < b + Rd(Cur, SizeAt(b))

ProbePtrs ==
    {heap_buffer + 8 * i : i \in 0 .. (HeapWords + 2)} \cup OutsidePtrs

\* p is the data address of a block of the address-ordered walk that is
\* allocated
DataOfAllocated(p) ==
    /\ Walk.halt = "no"
    /\ get_header(p) \in BlockSet
    /\ ~is_free(Cur, get_header(p), FALSE)

\* C23: in every state between calls, my_free(p) of a non-null pointer
\* that is not the data address of an allocated block (outside the heap,
\* inside it but not a block's data start, or the data start of a free
\* block) returns and changes neither a word of the heap nor free_list.
C23_BadReleaseNoOp ==
    halted = "no" =>
        \A p \in ProbePtrs : \A ub \in BOOLEAN :
            (p # nullptr /\ ~DataOfAllocated(p)) =>
                my_free(Cur, p, ub).st = Cur

\* the positions in the free list of the entries of at least total bytes
FitPositions(total) ==
    {i \in 1 .. Len(List.blocks) : Rd(Cur, SizeAt(List.blocks[i])) >= total}

\* the least of a non-empty set of positions
FirstOf(S) == CHOOSE i \in S : \A k \in S : i <= k

\* the free list of state st
ListOf(st) == ListWalk(st, st.free_list, <<>>, Fuel)

\* C24: in every state between calls, my_malloc(size) with size >= 1
\* returns a block only if some free-list entry has at least
\* metadata_size + align(size) bytes, and then returns the data address of
\* the first such entry in list order; the entries before it keep their
\* size and is_free flag and remain the first entries of the list, in the
\* same order.
C24_FirstFit ==
    (halted = "no" /\ List.halt = "no") =>
        \A size \in AllRequests \ {0} :
            LET r == my_malloc(Cur, size)
                fits == FitPositions(TotalMath(size))
                after == ListOf(r.st)
            IN /\ r.st.halt = "no"
               /\ (r.ret # nullptr => fits # {})
               /\ fits # {} =>
                     /\ r.ret = get_data(List.blocks[FirstOf(fits)])
                     /\ Len(after.blocks) >= FirstOf(fits) - 1
                     /\ \A j \in 1 .. (FirstOf(fits) - 1) :
                           /\ after.blocks[j] = List.blocks[j]
                           /\ Rd(r.st, SizeAt(List.blocks[j]))
                                 = Rd(Cur, SizeAt(List.blocks[j]))
                           /\ is_free(r.st, List.blocks[j], FALSE)

\* the sequence w without its i-th entry, and with e in the i-th place
WithoutAt(w, i) ==
    [k \in 1 .. (Len(w) - 1) |-> IF k < i THEN w[k] ELSE w[k + 1]]

ReplacedAt(w, i, e) == [w EXCEPT ![i] = e]

\* the position of block b in the free list
PositionOf(b) == CHOOSE i \in 1 .. Len(List.blocks) : List.blocks[i] = b

\* C25: in every state between calls, when my_malloc(size) returns a
\* block, that block was an entry of the free list; if it was split, the
\* free list afterwards is the list before with the remainder (the block
\* right behind the returned one) in the place of the chosen block; if it
\* was not split, it is the list before without the chosen block.  All
\* other entries keep their order.
C25_ListPositionKept ==
    (halted = "no" /\ List.halt = "no") =>
        \A size \in AllRequests :
            LET r == my_malloc(Cur, size)
                b == get_header(r.ret)
                after == ListOf(r.st)
            IN r.ret # nullptr =>
                  /\ r.st.halt = "no"
                  /\ after.halt = "no"
                  /\ b \in EntrySet
                  /\ IF Rd(r.st, SizeAt(b)) # Rd(Cur, SizeAt(b))
                     THEN after.blocks =
                              ReplacedAt(List.blocks, PositionOf(b),
                                         b + Rd(r.st, SizeAt(b)))
                     ELSE after.blocks = WithoutAt(List.blocks, PositionOf(b))

\* C26: in every state between calls, when my_malloc(size) returns a block
\* that had S bytes, the block was split exactly if S minus
\* metadata_size + align(size) is at least the minimum block size; a split
\* block has metadata_size + align(size) bytes, an unsplit one keeps S; and
\* the usable size is at least align(size) and exceeds it by less than the
\* minimum block size.
C26_SplitIffRoom ==
    halted = "no" =>
        \A size \in AllRequests :
            LET r == my_malloc(Cur, size)
                b == get_header(r.ret)
                S == Rd(Cur, SizeAt(b))
                after == Rd(r.st, SizeAt(b))
            IN r.ret # nullptr =>
                  /\ r.st.halt = "no"
                  /\ (after # S) <=> (S - TotalMath(size) >= get_min_block_size)
                  /\ after = IF after # S THEN TotalMath(size) ELSE S
                  /\ after - sizeofBlockHeader >= AlignMath(size)
                  /\ (after - sizeofBlockHeader) - AlignMath(size)
                        < get_min_block_size

\* the block right behind block b is inside the heap and free
FreeSuccessor(b) ==
    /\ b + Rd(Cur, SizeAt(b)) < heap_end
    /\ is_free(Cur, b + Rd(Cur, SizeAt(b)), FALSE)

\* block b has an address-predecessor and it is free
FreePredecessor(b) ==
    /\ PredOf(b) # nullptr
    /\ is_free(Cur, PredOf(b), FALSE)

\* the free list before the release of b, without b's successor when that
\* one is merged into b
ListLessSuccessor(b) ==
    IF FreeSuccessor(b) /\ (b + Rd(Cur, SizeAt(b))) \in EntrySet
    THEN WithoutAt(List.blocks, PositionOf(b + Rd(Cur, SizeAt(b))))
    ELSE List.blocks

\* C27: in every state between calls the address-ordered walk and the
\* free list end, and my_free(p) of a live allocation succeeds; a free successor's entry leaves the free list; if the block
\* has no free address-predecessor it becomes the head with the rest of
\* the list behind it in the old order, and if it has one, nothing is
\* inserted and every remaining entry, the predecessor included, keeps its
\* place.
C27_ReleaseListEffect ==
    halted = "no" =>
        \A p \in BagToSet(live) :
            LET r == my_free(Cur, p, FALSE)
                b == get_header(p)
                after == ListOf(r.st)
            IN /\ Walk.halt = "no"
               /\ List.halt = "no"
               /\ r.err = "none"
               /\ r.st.halt = "no"
               /\ after.halt = "no"
               /\ b \in BlockSet
               /\ after.blocks =
                     IF FreePredecessor(b) THEN ListLessSuccessor(b)
                     ELSE <<b>> \o ListLessSuccessor(b)

\* C28: every call of get_used_memory and of print_heap_state returns,
\* whatever heap it walks, and print_heap_state reports the corruption
\* when the first block of the heap has size zero.
C28_WalkGuarded ==
    last.op \in {"used", "print"} =>
        /\ halted = "no"
        /\ (last.op = "print" /\ Rd(Cur, SizeAt(heap_buffer)) = 0) =>
              last.err = "corrupt"

\* C29: every call made so far has returned, the free list ends at a null
\* link, and for every live allocation the scan from heap_buffer ends and
\* arrives exactly at the allocation's header: some block ends where it
\* starts, or it is the first block.
C29_CallsTerminate ==
    /\ halted = "no"
    /\ List.halt = "no"
    /\ Walk.halt = "no"
    /\ \A p \in BagToSet(live) :
          /\ get_header(p) \in BlockSet
          /\ FindPrev(Cur, get_header(p), heap_buffer, FALSE, Fuel).halt = "no"

\* the blocks of the address-ordered walk that are free, and those in use
FreeBlocks == {b \in BlockSet : is_free(Cur, b, FALSE)}
UsedBlocks == BlockSet \ FreeBlocks

\* C30: in every state between calls, no free block of the address-ordered
\* walk is followed directly by another free block, and the free blocks
\* number at most the used blocks plus one.
C30_NoAdjacentFree ==
    halted = "no" =>
        /\ \A b \in FreeBlocks :
              (b + Rd(Cur, SizeAt(b))) \notin (FreeBlocks \ {b})
        /\ Cardinality(FreeBlocks) <= Cardinality(UsedBlocks) + 1

\* C31: right after a my_free that released the pointer q, and after any
\* two further my_malloc calls that do not return q again, my_free(q) is
\* reported as a double free and changes neither the heap nor the free
\* list, whatever value a load of is_free from a byte that is neither 0
\* nor 1 produces.
C31_StaleReleaseDetected ==
    Released =>
        \A s1 \in Requests : \A s2 \in Requests : \A ub \in BOOLEAN :
            LET r1 == my_malloc(Cur, s1)
                r2 == my_malloc(r1.st, s2)
            IN (r1.ret # last.ptr /\ r2.ret # last.ptr) =>
                  my_free(r2.st, last.ptr, ub)
                      = [st |-> r2.st, err |-> "double"]

\* C32: in every state between calls, the free list ends at a null link
\* without visiting an entry twice, its entries are starts of blocks of
\* the address-ordered walk, and they are exactly the blocks of the walk
\* whose is_free is set.
C32_ListWellFormed ==
    halted = "no" =>
        /\ List.halt = "no"
        /\ Walk.halt = "no"
        /\ \A i \in 1 .. Len(List.blocks) : \A j \in 1 .. Len(List.blocks) :
              List.blocks[i] = List.blocks[j] => i = j
        /\ EntrySet \subseteq BlockSet
        /\ EntrySet = FreeBlocks

\* C33: in every state between calls, get_used_memory and get_free_memory
\* return, the address-ordered walk ends, and the two values plus one
\* BlockHeader per block of the walk add up to HEAP_SIZE.
C33_BytesAccounted ==
    halted = "no" =>
        /\ Walk.halt = "no"
        /\ get_used_memory(Cur) # NoValue
        /\ get_free_memory(Cur) # NoValue
        /\ get_used_memory(Cur) + get_free_memory(Cur)
              + sizeofBlockHeader * Len(Walk.blocks) = HEAP_SIZE

\* the header of the live allocation q holds the same size in state st as
\* now, and is_free is clear in both
KeptAllocated(st, q) ==
    /\ Rd(st, SizeAt(get_header(q))) = Rd(Cur, SizeAt(get_header(q)))
    /\ FlagDefined(st, get_header(q))
    /\ ~is_free(st, get_header(q), FALSE)
    /\ ~is_free(Cur, get_header(q), FALSE)

\* C34: in every state between calls, for every live allocation q, a
\* my_malloc that returns another pointer (or null) and a my_free of
\* another live pointer return and leave q's block with the size it had
\* and with is_free clear.
C34_OthersUntouched ==
    halted = "no" =>
        \A q \in BagToSet(live) :
            /\ \A size \in AllRequests :
                  my_malloc(Cur, size).ret # q =>
                      /\ my_malloc(Cur, size).st.halt = "no"
                      /\ KeptAllocated(my_malloc(Cur, size).st, q)
            /\ \A p \in BagToSet(live) \ {q} : \A ub \in BOOLEAN :
                  /\ my_free(Cur, p, ub).st.halt = "no"
                  /\ KeptAllocated(my_free(Cur, p, ub).st, q)

\* the address-ordered walk of state st ends and meets the same blocks as
\* the walk now, with the same sizes and is_free flags
SamePartition(st) ==
    LET w == HeapWalk(st, heap_buffer, <<>>, Fuel)
    IN /\ Walk.halt = "no"
       /\ w.halt = "no"
       /\ w.blocks = Walk.blocks
       /\ \A b \in BlockSet :
             /\ Rd(st, SizeAt(b)) = Rd(Cur, SizeAt(b))
             /\ FlagDefined(st, b)
             /\ FlagDefined(Cur, b)
             /\ is_free(st, b, FALSE) = is_free(Cur, b, FALSE)

\* the three diagnostics return in state st what they return now
SameDiagnostics(st) ==
    /\ get_used_memory(Cur) # NoValue
    /\ get_free_memory(Cur) # NoValue
    /\ get_fragmentation_count(Cur) # NoValue
    /\ get_used_memory(st) = get_used_memory(Cur)
    /\ get_free_memory(st) = get_free_memory(Cur)
    /\ get_fragmentation_count(st) = get_fragmentation_count(Cur)

\* C35: in every state between calls, a my_malloc(size) that returns a
\* block, followed at once by my_free of that block, succeeds and leaves
\* the same blocks with the same sizes and flags, and the same values of
\* get_used_memory, get_free_memory and get_fragmentation_count.
C35_RoundTrip ==
    halted = "no" =>
        \A size \in AllRequests :
            LET r == my_malloc(Cur, size)
                f == my_free(r.st, r.ret, FALSE)
            IN r.ret # nullptr =>
                  /\ f.err = "none"
                  /\ f.st.halt = "no"
                  /\ SamePartition(f.st)
                  /\ SameDiagnostics(f.st)

\* what the address-ordered walk of state st sees: whether it ends, and
\* start, size and is_free byte of every block it meets
Layout(st) ==
    LET w == HeapWalk(st, heap_buffer, <<>>, Fuel)
    IN [halt |-> w.halt,
        blocks |-> [i \in 1 .. Len(w.blocks) |->
                      <<w.blocks[i], Rd(st, SizeAt(w.blocks[i])),
                        Rd(st, FlagAt(w.blocks[i])) % 256>>]]

\* what the three diagnostics return in state st
Diagnostics(st) ==
    <<get_used_memory(st), get_free_memory(st), get_fragmentation_count(st)>>

\* my_free(p) and then my_free(q), from the state between calls
FreeBoth(p, q) == my_free(my_free(Cur, p, FALSE).st, q, FALSE)

====
